---- MODULE Spec2Model ----
(***************************************************************************)
(* A model of the integration configuration SDK (revised protocol form):   *)
(* the EventBus, the ConfigSDK session built on it, and createSDK.         *)
(*                                                                         *)
(* The program is single threaded.  A dispatch pass (EventBus.trigger) is  *)
(* modelled step by step: one step per handler call of the forEach loop,   *)
(* one step per config watcher call of the inner forEach loop.  While a    *)
(* user callback is running (pc = "inWatcher" or "inCallback") the body of *)
(* the callback may call any public operation of the session; so may the   *)
(* application at top level (pc = "idle").  No other step is enabled       *)
(* inside a pass, which keeps the pass atomic as it is in the program.     *)
(* The relay method is called by the host only, so passes do not nest.     *)
(* In Spec and SpecOutbound the user callbacks return normally; in         *)
(* SpecThrow the body of a callback may also throw.                        *)
(*                                                                         *)
(* Two createSDK calls make two sessions.  The variables describe the      *)
(* session in focus and peer holds the other one; SpecSessions follows     *)
(* both, the other specifications follow the first session only.           *)
(*                                                                         *)
(* What an operation hands to parent.emit is kept per step (emitted), and  *)
(* the operation, its argument and its outcome in last: the channel itself *)
(* belongs to the transport, not to the SDK.                               *)
(***************************************************************************)
EXTENDS Naturals, Sequences, FiniteSets

VARIABLES
  state,           \* "Connecting" until the handshake resolves, then "Connected"
  config,          \* ConfigSDK.config: the mirror
  editMode,        \* ConfigSDK.editMode
  template,        \* ConfigSDK.template
  handlers,        \* EventBus.handlers
  configWatchers,  \* ConfigSDK.configWatchers
  observers,       \* the ResizeObservers created by enableAutoResize
  pc,              \* where the single thread of control is
  cur,             \* the event of the dispatch pass under way
  len,             \* handlers.length as read when forEach began (trigger)
  k,               \* index of the next handler of the pass
  wlen,            \* configWatchers.length as read when the inner forEach began
  wk,              \* index of the next config watcher
  emitted,         \* what the latest step handed to parent.emit, in order
  last,            \* the latest step: the operation, its argument, its outcome
  log,             \* the calls made so far by the pass under way, in order
  pushed,          \* payload of the latest inbound 'set-config', else the seed
  focus,           \* which session the variables above describe (1 or 2)
  peer,            \* the fields of the other session and of its bus
  relayed          \* the session whose relay method the host called last (0: none)

vars == <<state, config, editMode, template, handlers, configWatchers, observers,
          pc, cur, len, k, wlen, wk, emitted, last, log, pushed,
          focus, peer, relayed>>

-----------------------------------------------------------------------------
(* Bounds of the model *)

MaxHandlers == 3    \* longest EventBus.handlers list explored
MaxWatchers == 2    \* longest configWatchers list explored
MaxObservers == 1   \* most ResizeObservers created

-----------------------------------------------------------------------------
(* Values *)

\* A Config is an open mapping from keys to values: a set of <<key, value>>
\* pairs with at most one pair per key.
EmptyConfig == {}
Configs == { {}, {<<"a", 1>>}, {<<"a", 1>>, <<"b", 2>>} }
KeysOf(c) == {p[1] : p \in c}

\* DashboardEvent.field: null, or an object carrying a key.
NullField == [isNull |-> TRUE, key |-> ""]
FieldKeys == {"my_button", "other"}
Fields == {NullField} \cup {[isNull |-> FALSE, key |-> key] : key \in FieldKeys}

\* DashboardEvent
EventNames == {"set-config", "click", "blur"}
DashboardEvent ==
  [event : {"set-config"}, field : Fields, payload : Configs]
    \cup [event : EventNames \ {"set-config"}, field : Fields,
          payload : {EmptyConfig, {<<"a", 1>>}}]
NoEvent == [event |-> "", field |-> NullField, payload |-> EmptyConfig]

\* The model the host hands over at the handshake (ModelledChildApi.model).
\* config is optional; editMode may be missing in an older host.
Undefined == [defined |-> FALSE, value |-> EmptyConfig]
Defined(c) == [defined |-> TRUE, value |-> c]
Models ==
  [config : {Undefined} \cup {Defined(c) : c \in Configs},
   editMode : {"true", "false", "undefined"},
   code : {"tpl"}]

\* JavaScript's `value || fallback` on an optional object: an object (even an
\* empty one) is truthy, undefined is not.
OrElse(opt, fallback) == IF opt.defined THEN opt.value ELSE fallback

\* Faulty variant of Boolean: any value that is present counts as true
BooleanPresent(x) == x # "undefined"
\* JavaScript's Boolean(x) on true, false or undefined.
Boolean(x) == x = "true"

\* JavaScript truthiness of an event's field: an object is truthy, null is not.
Truthy(field) == ~field.isNull

-----------------------------------------------------------------------------
(* Numbers and their string form.  A number is held in tenths (2505 is     *)
(* 250.5), so that heights with a fraction, as getBoundingClientRect gives *)
(* them, are covered.  A string is a sequence of characters.               *)

DigitChar == <<"0", "1", "2", "3", "4", "5", "6", "7", "8", "9">>
DigitValue(ch) == CHOOSE d \in 0..9 : DigitChar[d + 1] = ch

RECURSIVE IntegerDigits(_)
IntegerDigits(n) ==
  IF n < 10 THEN <<DigitChar[n + 1]>>
  ELSE IntegerDigits(n \div 10) \o <<DigitChar[(n % 10) + 1]>>

\* Faulty variant of NumberToString: the fraction is dropped
NumberToStringWhole(t) == IntegerDigits(t \div 10)
\* Number.prototype.toString() of a non-negative number
NumberToString(t) ==
  IntegerDigits(t \div 10)
    \o (IF t % 10 = 0 THEN <<>> ELSE <<".", DigitChar[(t % 10) + 1]>>)

RECURSIVE ParseDigits(_, _)
ParseDigits(s, acc) ==
  IF s = <<>> THEN acc
  ELSE ParseDigits(Tail(s), 10 * acc + DigitValue(Head(s)))

\* What the host gets by reading the string back as a number (in tenths); the
\* host's side of the 'set-height' message, not code of the SDK
StringToNumber(s) ==
  IF \E i \in 1..Len(s) : s[i] = "."
  THEN LET dot == CHOOSE i \in 1..Len(s) : s[i] = "."
       IN  10 * ParseDigits(SubSeq(s, 1, dot - 1), 0)
             + DigitValue(s[dot + 1])
  ELSE 10 * ParseDigits(s, 0)

Heights == {0, 5, 100, 2500, 2505}

-----------------------------------------------------------------------------
(* Outbound messages: parent.emit(name, ...args) *)

Msg(name, args) == [name |-> name, args |-> args]

Schemas ==
  { << >>,
    << [type |-> "short_text", key |-> "name", label |-> "Your name", schema |-> << >>] >>,
    << [type |-> "button", key |-> "my_button", label |-> "Click me", schema |-> << >>],
       [type |-> "", key |-> "sub", label |-> "Nested",
        schema |-> << [type |-> "number", key |-> "n", label |-> "N", schema |-> << >>] >>] >> }

ExternalIds == {"ext-1"}

\* The body's bounding rectangle (y and height, in tenths)
Rects == {[y |-> 0, height |-> 1000], [y |-> 85, height |-> 2000]}
Documents == {"undeclared", "noBody", "withBody"}

-----------------------------------------------------------------------------
(* The steps *)

\* The sessions: each createSDK call makes one, with a bus of its own.
Sessions == {1, 2}
\* The fields of a session whose createSDK call awaits the handshake
NewSession ==
  [state |-> "Connecting", config |-> EmptyConfig, editMode |-> FALSE,
   template |-> "", handlers |-> << >>, configWatchers |-> << >>,
   observers |-> << >>, pushed |-> EmptyConfig]
\* The fields of the session in focus
Focused ==
  [state |-> state, config |-> config, editMode |-> editMode,
   template |-> template, handlers |-> handlers,
   configWatchers |-> configWatchers, observers |-> observers,
   pushed |-> pushed]
\* The fields of session s
Session(s) == IF s = focus THEN Focused ELSE peer

Step(op, arg) == [op |-> op, arg |-> arg, threw |-> "none"]
Threw(op, arg, err) == [op |-> op, arg |-> arg, threw |-> err]

Init ==
  /\ state = "Connecting"
  /\ config = EmptyConfig
  /\ editMode = FALSE
  /\ template = ""
  /\ handlers = << >>
  /\ configWatchers = << >>
  /\ observers = << >>
  /\ pc = "idle"
  /\ cur = NoEvent
  /\ len = 0
  /\ k = 0
  /\ wlen = 0
  /\ wk = 0
  /\ emitted = << >>
  /\ last = Step("init", "")
  /\ log = << >>
  /\ pushed = EmptyConfig
  /\ focus = 1
  /\ peer = NewSession
  /\ relayed = 0

\* The handler the constructor pushes (the state-updater), and the one `on` pushes.
\* id stands for the identity of the closure: the n-th closure handed to the bus.
UpdaterHandler(id) == [kind |-> "updater", event |-> "", key |-> "", id |-> id]
OnHandler(event, key, id) == [kind |-> "on", event |-> event, key |-> key, id |-> id]

\* Faulty variant of pushHandler: handlers.unshift(handler)
unshiftHandler(list, handler) == <<handler>> \o list
\* EventBus.pushHandler: handlers.push(handler)
pushHandler(list, handler) == Append(list, handler)

\* Array.prototype.forEach visits the indices below the length it read when it
\* began: elements appended during the loop are not visited.
\* (Faulty variant: a loop that reads list.length anew at every turn)
forEachRangeLive(lengthAtStart, list) == Len(list)
forEachRange(lengthAtStart, list) == lengthAtStart

InPass == pc \in {"dispatch", "watchers", "inWatcher", "inCallback"}
\* Faulty variant of UserRuns: the session is usable before the handshake
UserRunsUnconnected == pc \in {"idle", "inWatcher", "inCallback"}
\* user code can run: at top level, or in the body of a callback
UserRuns == state = "Connected" /\ pc \in {"idle", "inWatcher", "inCallback"}

\* createSDK: the handshake resolves with the host's model, and the constructor
\* seeds the session and registers the state-updater.
createSDK(model) ==
  /\ state = "Connecting"
  /\ state' = "Connected"
  /\ config' = OrElse(model.config, EmptyConfig)
  /\ editMode' = Boolean(model.editMode)
  /\ template' = model.code
  /\ configWatchers' = << >>
  /\ handlers' = pushHandler(handlers, UpdaterHandler(Len(handlers) + 1))
  /\ pushed' = OrElse(model.config, EmptyConfig)
  /\ emitted' = << >>
  /\ last' = Step("createSDK", model)
  /\ UNCHANGED <<observers, pc, cur, len, k, wlen, wk, log>>
  /\ UNCHANGED <<focus, peer, relayed>>

\* The thread of control turns to the other session (its handshake resolves,
\* its user code runs, or the host calls its relay method next): every field
\* lives on the session object or on its bus, so the two sets of fields change
\* places as wholes.
OtherSession(s) == CHOOSE t \in Sessions : t # s
switchSession ==
  /\ pc = "idle"
  /\ focus' = OtherSession(focus)
  /\ peer' = Focused
  /\ state' = peer.state
  /\ config' = peer.config
  /\ editMode' = peer.editMode
  /\ template' = peer.template
  /\ handlers' = peer.handlers
  /\ configWatchers' = peer.configWatchers
  /\ observers' = peer.observers
  /\ pushed' = peer.pushed
  /\ emitted' = << >>
  /\ last' = Step("switchSession", OtherSession(focus))
  /\ UNCHANGED <<pc, cur, len, k, wlen, wk, log, relayed>>

-----------------------------------------------------------------------------
(* Inbound: the relay method `event` and EventBus.trigger *)

Call(who, id, arg) == [who |-> who, id |-> id, arg |-> arg]
NoArgs == << >>

\* Faulty variant of relayBus: one bus at module level, shared by the sessions
relayBusShared(s) == 1
\* The bus that the relay method of session s triggers: the one its own
\* createSDK call made (buses are named after their sessions).
relayBus(s) == s

\* The host calls the relay method of a session: bus.trigger(event) begins its
\* forEach.
trigger(e) ==
  /\ state = "Connected"
  /\ \E r \in Sessions :
       /\ Session(r).state = "Connected"
       /\ relayBus(r) = focus
       /\ relayed' = r
  /\ UNCHANGED <<focus, peer>>
  /\ pc = "idle"
  /\ pc' = "dispatch"
  /\ cur' = e
  /\ len' = Len(handlers)
  /\ k' = 1
  /\ log' = << >>
  /\ pushed' = IF e.event = "set-config" THEN e.payload ELSE pushed
  /\ emitted' = << >>
  /\ last' = Step("event", e)
  /\ UNCHANGED <<state, config, editMode, template, handlers, configWatchers,
                 observers, wlen, wk>>

\* A configuration c overlaid on a configuration base: c's pairs win
Merge(base, c) == c \cup {p \in base : p[1] \notin KeysOf(c)}

\* Faulty variant of replaceMirror: the payload is merged into the mirror
mergeMirror(mirror, payload) == Merge(mirror, payload)
\* The mirror after the state-updater has taken a 'set-config' payload
replaceMirror(mirror, payload) == payload

\* Faulty variant of updaterTakes: the event's name is not looked at
updaterTakesAny(e) == TRUE
\* The test of the state-updater: only 'set-config' is taken
updaterTakes(e) == ~(e.event # "set-config")

\* forEach calls the next handler, and it is the state-updater.
stateUpdater ==
  /\ pc = "dispatch"
  /\ k <= forEachRange(len, handlers)
  /\ handlers[k].kind = "updater"
  /\ log' = Append(log, Call("handler", handlers[k].id, cur))
  /\ IF ~updaterTakes(cur)
     THEN /\ k' = k + 1
          /\ UNCHANGED <<config, pc, wlen, wk>>
     ELSE /\ config' = replaceMirror(config, cur.payload)
          /\ wlen' = Len(configWatchers)
          /\ wk' = 1
          /\ pc' = "watchers"
          /\ UNCHANGED k
  /\ emitted' = << >>
  /\ last' = Step("stateUpdater", config)   \* arg: the mirror before the call
  /\ UNCHANGED <<state, editMode, template, handlers, configWatchers, observers,
                 cur, len, pushed>>
  /\ UNCHANGED <<focus, peer, relayed>>

\* Faulty variant of Matches: the field is not looked at
MatchesNameOnly(h, e) == e.event = h.event
\* The test of the handler that `on` registers
Matches(h, e) == e.event = h.event /\ Truthy(e.field) /\ e.field.key = h.key

\* forEach calls the next handler, and it is one registered by `on`.
onHandler ==
  /\ pc = "dispatch"
  /\ k <= forEachRange(len, handlers)
  /\ handlers[k].kind = "on"
  /\ IF Matches(handlers[k], cur)
     THEN /\ log' = log \o <<Call("handler", handlers[k].id, cur),
                             Call("callback", handlers[k].id, NoArgs)>>
          /\ pc' = "inCallback"
          /\ UNCHANGED k
     ELSE /\ log' = Append(log, Call("handler", handlers[k].id, cur))
          /\ k' = k + 1
          /\ UNCHANGED pc
  /\ emitted' = << >>
  /\ last' = Step("onHandler", cur)
  /\ UNCHANGED <<state, config, editMode, template, handlers, configWatchers,
                 observers, cur, len, wlen, wk, pushed>>
  /\ UNCHANGED <<focus, peer, relayed>>

\* The inner forEach of the state-updater calls the next config watcher.
callWatcher ==
  /\ pc = "watchers"
  /\ wk <= forEachRange(wlen, configWatchers)
  /\ log' = Append(log, Call("watcher", configWatchers[wk].id, config))
  /\ pc' = "inWatcher"
  /\ emitted' = << >>
  /\ last' = Step("callWatcher", config)
  /\ UNCHANGED <<state, config, editMode, template, handlers, configWatchers,
                 observers, cur, len, k, wlen, wk, pushed>>
  /\ UNCHANGED <<focus, peer, relayed>>

\* The inner forEach is over: the state-updater returns to the bus.
updaterReturns ==
  /\ pc = "watchers"
  /\ wk > forEachRange(wlen, configWatchers)
  /\ pc' = "dispatch"
  /\ k' = k + 1
  /\ emitted' = << >>
  /\ last' = Step("updaterReturns", cur)
  /\ UNCHANGED <<state, config, editMode, template, handlers, configWatchers,
                 observers, cur, len, wlen, wk, log, pushed>>
  /\ UNCHANGED <<focus, peer, relayed>>

\* The body of a user callback returns normally.
callbackReturns ==
  /\ pc \in {"inWatcher", "inCallback"}
  /\ IF pc = "inWatcher"
     THEN pc' = "watchers" /\ wk' = wk + 1 /\ UNCHANGED k
     ELSE pc' = "dispatch" /\ k' = k + 1 /\ UNCHANGED wk
  /\ emitted' = << >>
  /\ last' = Step("callbackReturns", "")
  /\ UNCHANGED <<state, config, editMode, template, handlers, configWatchers,
                 observers, cur, len, wlen, log, pushed>>
  /\ UNCHANGED <<focus, peer, relayed>>

\* Faulty variant of handlerFailure: the loop catches the error and goes on
handlerFailureSwallowed(p) == IF p = "inWatcher" THEN "watchers" ELSE "dispatch"
\* Where control goes when the body of a callback throws (p says which kind of
\* callback): neither forEach, nor the state-updater, nor trigger catches, so
\* the error unwinds the whole pass.
handlerFailure(p) == "failed"

\* The body of a user callback throws.
callbackThrows ==
  /\ pc \in {"inWatcher", "inCallback"}
  /\ log' = Append(log, Call("throw",
                             IF pc = "inWatcher" THEN configWatchers[wk].id
                                                 ELSE handlers[k].id,
                             NoArgs))
  /\ pc' = handlerFailure(pc)
  /\ emitted' = << >>
  /\ last' = Threw("callbackThrows", "", "UserError")
  /\ UNCHANGED <<state, config, editMode, template, handlers, configWatchers,
                 observers, cur, len, k, wlen, wk, pushed>>
  /\ UNCHANGED <<focus, peer, relayed>>

\* The error leaves trigger and the relay method: their caller (the transport)
\* gets it.
relayFails ==
  /\ pc = "failed"
  /\ pc' = "idle"
  /\ cur' = NoEvent
  /\ len' = 0
  /\ k' = 0
  /\ wlen' = 0
  /\ wk' = 0
  /\ log' = << >>
  /\ emitted' = << >>
  /\ last' = Threw("event", cur, "UserError")
  /\ UNCHANGED <<state, config, editMode, template, handlers, configWatchers,
                 observers, pushed>>
  /\ UNCHANGED <<focus, peer, relayed>>

\* forEach has visited its range: trigger, and the relay method, return.
triggerReturns ==
  /\ pc = "dispatch"
  /\ k > forEachRange(len, handlers)
  /\ pc' = "idle"
  /\ cur' = NoEvent
  /\ len' = 0
  /\ k' = 0
  /\ wlen' = 0
  /\ wk' = 0
  /\ log' = << >>
  /\ emitted' = << >>
  /\ last' = Step("triggerReturns", "")
  /\ UNCHANGED <<state, config, editMode, template, handlers, configWatchers,
                 observers, pushed>>
  /\ UNCHANGED <<focus, peer, relayed>>

-----------------------------------------------------------------------------
(* The public operations of ConfigSDK.  User code calls them at top level   *)
(* or from the body of a callback.                                          *)

Watcher(id) == [id |-> id]
\* The (event name, field key) pairs user code watches with `on`
Watched == {<<"click", "my_button">>, <<"set-config", "other">>}

\* Faulty variant of Untouched: the operation clears editMode
UntouchedButEditMode ==
  /\ editMode' = FALSE
  /\ UNCHANGED <<state, config, template, handlers, configWatchers, observers,
                 pc, cur, len, k, wlen, wk, log, pushed>>
  /\ UNCHANGED <<focus, peer, relayed>>
\* An operation that touches neither the session nor the bus
Untouched == UNCHANGED <<state, config, editMode, template, handlers,
                         configWatchers, observers, pc, cur, len, k, wlen, wk,
                         log, pushed,
                         focus, peer, relayed>>

\* on(event, key, handler)
on(event, key) ==
  /\ UserRuns
  /\ Len(handlers) < MaxHandlers
  /\ handlers' = pushHandler(handlers, OnHandler(event, key, Len(handlers) + 1))
  /\ emitted' = << >>
  /\ last' = Step("on", <<event, key>>)
  /\ UNCHANGED <<state, config, editMode, template, configWatchers, observers,
                 pc, cur, len, k, wlen, wk, log, pushed>>
  /\ UNCHANGED <<focus, peer, relayed>>

\* Faulty variant of pushWatcher: configWatchers.unshift(handler)
unshiftWatcher(list, watcher) == <<watcher>> \o list
\* onConfigUpdate: configWatchers.push(handler)
pushWatcher(list, watcher) == Append(list, watcher)

\* onConfigUpdate(handler)
onConfigUpdate ==
  /\ UserRuns
  /\ Len(configWatchers) < MaxWatchers
  /\ configWatchers' = pushWatcher(configWatchers, Watcher(Len(configWatchers) + 1))
  /\ emitted' = << >>
  /\ last' = Step("onConfigUpdate", "")
  /\ UNCHANGED <<state, config, editMode, template, handlers, observers,
                 pc, cur, len, k, wlen, wk, log, pushed>>
  /\ UNCHANGED <<focus, peer, relayed>>

\* Variant of setConfigEmits: the legacy protocol form, emit('save', config)
setConfigEmitsLegacy(c) == <<Msg("save", <<c>>)>>
\* Faulty variant of saveEmits: editMode is not looked at
saveEmitsUnguarded(em) == <<Msg("save", << >>)>>
\* Faulty variant of setSchemaEmits: the nested sub-schemas are left out
setSchemaEmitsFlat(schema) ==
  <<Msg("set-schema",
        <<[i \in 1..Len(schema) |-> [schema[i] EXCEPT !.schema = << >>]]>>)>>
\* What each operation hands to parent.emit
setHeightEmits(height) == <<Msg("set-height", <<NumberToString(height)>>)>>
setConfigEmits(c) == <<Msg("update-config", <<c>>)>>
saveEmits(em) == IF ~em THEN << >> ELSE <<Msg("save", << >>)>>
setExternalIdEmits(id) == <<Msg("set-external-id", <<id>>)>>
setSchemaEmits(schema) == <<Msg("set-schema", <<schema>>)>>
setSavableEmits(savable) == <<Msg("set-savable", <<savable>>)>>

\* Faulty variant of setConfigMirror: an optimistic local merge
setConfigMirrorOptimistic(mirror, c) == Merge(mirror, c)
\* The mirror after setConfig(c): the call only emits
setConfigMirror(mirror, c) == mirror

setHeight(height) ==
  /\ UserRuns
  /\ emitted' = setHeightEmits(height)
  /\ last' = Step("setHeight", height)
  /\ Untouched

setConfig(c) ==
  /\ UserRuns
  /\ emitted' = setConfigEmits(c)
  /\ config' = setConfigMirror(config, c)
  /\ last' = Step("setConfig", c)
  /\ UNCHANGED <<state, editMode, template, handlers, configWatchers, observers,
                 pc, cur, len, k, wlen, wk, log, pushed>>
  /\ UNCHANGED <<focus, peer, relayed>>

save ==
  /\ UserRuns
  /\ emitted' = saveEmits(editMode)
  /\ last' = Step("save", "")
  /\ Untouched

setExternalId(id) ==
  /\ UserRuns
  /\ emitted' = setExternalIdEmits(id)
  /\ last' = Step("setExternalId", id)
  /\ Untouched

setSchema(schema) ==
  /\ UserRuns
  /\ emitted' = setSchemaEmits(schema)
  /\ last' = Step("setSchema", schema)
  /\ Untouched

setSavable(savable) ==
  /\ UserRuns
  /\ emitted' = setSavableEmits(savable)
  /\ last' = Step("setSavable", savable)
  /\ Untouched

-----------------------------------------------------------------------------
(* Auto-resize *)

\* Variant of calculateHeight: the legacy form, rect.y + rect.height
calculateHeightLegacy(rect) == rect.y + rect.height
\* calculateHeight, from the body's rectangle
calculateHeight(rect) == (2 * rect.y) + rect.height

\* Faulty variant of documentCheck: document.body is not looked at
documentCheckNoBody(doc) == IF doc = "undeclared" THEN "ReferenceError" ELSE "none"
\* The guard of enableAutoResize: reading an undeclared `document` raises a
\* ReferenceError, a document without body raises the Error of the code.
documentCheck(doc) ==
  IF doc = "undeclared" THEN "ReferenceError"
  ELSE IF doc = "noBody" THEN "Error"
  ELSE "none"

\* A ResizeObserver: whether it observes the body, whether the browser owes it
\* a notification, and whether its cleanup function has been called
Observer(pending) == [active |-> TRUE, pending |-> pending, tornDown |-> FALSE]

\* Faulty variant of disconnect: the observer goes on observing
disconnectNothing(o) == [o EXCEPT !.tornDown = TRUE]
\* The cleanup function on its observer: observer.disconnect()
disconnect(o) == [active |-> FALSE, pending |-> FALSE, tornDown |-> TRUE]

\* enableAutoResize() in an environment doc, the body's rectangle being rect;
\* `initial` says whether the browser owes the new observer a first notification.
enableAutoResize(doc, rect, initial) ==
  /\ UserRuns
  /\ IF documentCheck(doc) # "none"
     THEN /\ last' = Threw("enableAutoResize", [doc |-> doc, rect |-> rect],
                          documentCheck(doc))
          /\ emitted' = << >>
          /\ UNCHANGED observers
     ELSE /\ Len(observers) < MaxObservers
          /\ observers' = Append(observers, Observer(initial))
          /\ emitted' = setHeightEmits(calculateHeight(rect))
          /\ last' = Step("enableAutoResize", [doc |-> doc, rect |-> rect])
  /\ UNCHANGED <<state, config, editMode, template, handlers, configWatchers,
                 pc, cur, len, k, wlen, wk, log, pushed>>
  /\ UNCHANGED <<focus, peer, relayed>>

\* The function enableAutoResize returned for observer i: observer.disconnect()
teardown(i) ==
  /\ UserRuns
  /\ i \in DOMAIN observers
  /\ observers' = [observers EXCEPT ![i] = disconnect(observers[i])]
  /\ emitted' = << >>
  /\ last' = Step("teardown", i)
  /\ UNCHANGED <<state, config, editMode, template, handlers, configWatchers,
                 pc, cur, len, k, wlen, wk, log, pushed>>
  /\ UNCHANGED <<focus, peer, relayed>>

\* The body's box changes: the browser owes every observing observer a
\* notification (none when nothing observes).
bodyResized ==
  /\ pc = "idle"
  /\ observers' = [i \in DOMAIN observers |->
                     [observers[i] EXCEPT !.pending = observers[i].active]]
  /\ emitted' = << >>
  /\ last' = Step("bodyResized", "")
  /\ UNCHANGED <<state, config, editMode, template, handlers, configWatchers,
                 pc, cur, len, k, wlen, wk, log, pushed>>
  /\ UNCHANGED <<focus, peer, relayed>>

\* The browser runs the callback of observer i, the body's rectangle being rect.
resizeCallback(i, rect) ==
  /\ pc = "idle"
  /\ i \in DOMAIN observers
  /\ observers[i].active
  /\ observers[i].pending
  /\ observers' = [observers EXCEPT ![i].pending = FALSE]
  /\ emitted' = setHeightEmits(calculateHeight(rect))
  /\ last' = Step("resizeCallback", [observer |-> i, rect |-> rect])
  /\ UNCHANGED <<state, config, editMode, template, handlers, configWatchers,
                 pc, cur, len, k, wlen, wk, log, pushed>>
  /\ UNCHANGED <<focus, peer, relayed>>

-----------------------------------------------------------------------------
(* The specifications *)

\* The session and its bus: the handshake, inbound events, the registrations and
\* the outbound operations (each outbound operation with one or a few arguments;
\* SpecOutbound draws them from the full sets).
Next ==
  \/ \E model \in Models : createSDK(model)
  \/ \E e \in DashboardEvent : trigger(e)
  \/ stateUpdater
  \/ onHandler
  \/ callWatcher
  \/ updaterReturns
  \/ callbackReturns
  \/ triggerReturns
  \/ \E w \in Watched : on(w[1], w[2])
  \/ onConfigUpdate
  \/ \E height \in {2500} : setHeight(height)
  \/ \E c \in Configs : setConfig(c)
  \/ save
  \/ \E id \in ExternalIds : setExternalId(id)
  \/ \E schema \in {<< >>} : setSchema(schema)
  \/ \E savable \in {TRUE} : setSavable(savable)

Spec == Init /\ [][Next]_vars

\* The session and its bus, with callbacks that may throw.
NextThrow ==
  \/ Next
  \/ callbackThrows
  \/ relayFails

SpecThrow == Init /\ [][NextThrow]_vars

\* Two sessions, from two createSDK calls: the handshakes, the registrations
\* and the inbound events of both.
SessionModels ==
  {m \in Models : m.editMode = "true"
                    /\ m.config \in {Undefined, Defined({<<"a", 1>>})}}
SessionEvents ==
  {e \in DashboardEvent :
     \/ e.event = "set-config" /\ e.field.key = "other" /\ e.payload # EmptyConfig
     \/ e.event = "click" /\ e.field.key = "my_button" /\ e.payload = EmptyConfig}
SessionWatched == {w \in Watched : w[1] = "set-config"}
NextSessions ==
  \/ \E model \in SessionModels : createSDK(model)
  \/ switchSession
  \/ \E e \in SessionEvents : trigger(e)
  \/ stateUpdater
  \/ onHandler
  \/ callWatcher
  \/ updaterReturns
  \/ callbackReturns
  \/ triggerReturns
  \/ \E w \in SessionWatched : on(w[1], w[2])
  \/ onConfigUpdate

SpecSessions == Init /\ [][NextSessions]_vars

\* The outbound side: the handshake, every outbound operation with its arguments
\* drawn from the full sets, and auto-resize.
NextOutbound ==
  \/ \E model \in Models : createSDK(model)
  \/ \E height \in Heights : setHeight(height)
  \/ \E c \in Configs : setConfig(c)
  \/ save
  \/ \E id \in ExternalIds : setExternalId(id)
  \/ \E schema \in Schemas : setSchema(schema)
  \/ \E savable \in BOOLEAN : setSavable(savable)
  \/ \E doc \in Documents, rect \in Rects, initial \in BOOLEAN :
       enableAutoResize(doc, rect, initial)
  \/ \E i \in 1..MaxObservers : teardown(i)
  \/ bodyResized
  \/ \E i \in 1..MaxObservers, rect \in Rects : resizeCallback(i, rect)

SpecOutbound == Init /\ [][NextOutbound]_vars

-----------------------------------------------------------------------------
(* Properties *)

IsHandlerCall(c) == c.who = "handler"
IsWatcherCall(c) == c.who = "watcher"
HandlerCalls == SelectSeq(log, IsHandlerCall)
WatcherCalls == SelectSeq(log, IsWatcherCall)
\* how many times the callback given to `on` with the handler of identity id ran
CallbackRuns(id) ==
  Cardinality({i \in 1..Len(log) : log[i].who = "callback" /\ log[i].id = id})

\* forEach of trigger has visited its whole range: the pass is over
PassDone == pc = "dispatch" /\ k > forEachRange(len, handlers)

\* C1: one trigger(e) calls each handler that was in the list when the trigger
\* began exactly once, with e, in the order of registration.  The handler of
\* identity i is the i-th one registered, and len handlers were in the list when
\* the pass began: at every moment of the pass the handler calls made so far are
\* those of identities 1, 2, 3, ... in this order, each with e, and when the
\* pass is over there are exactly len of them.
C1_EachHandlerOnceInOrder ==
  InPass =>
    /\ Len(HandlerCalls) <= len
    /\ \A i \in 1..Len(HandlerCalls) :
         HandlerCalls[i].id = i /\ HandlerCalls[i].arg = cur
    /\ PassDone => Len(HandlerCalls) = len

C1_Witness ==
  /\ PassDone
  /\ len = 3
  /\ Len(HandlerCalls) = 3
  /\ handlers[2].event # handlers[3].event

\* C2: a handler registered from the body of a callback that runs during
\* trigger(e) is not called in that pass (neither it nor its callback appears
\* among the calls of the pass), and the next trigger takes it in: a pass begins
\* with every handler registered so far in its range.
C2_RegisteredDuringPassWaits ==
  /\ InPass =>
       \A i \in 1..Len(log) : log[i].who # "watcher" => log[i].id <= len
  /\ (pc = "dispatch" /\ log = << >>) => len = Len(handlers)

C2_Witness ==
  /\ PassDone
  /\ Len(handlers) > len
  /\ Matches(handlers[Len(handlers)], cur)

\* C3: once the session has taken an inbound 'set-config' with payload P the
\* mirror is exactly P, whatever it was before: no key of the previous mirror
\* survives unless P has it.
C3_SetConfigReplaces ==
  (InPass /\ cur.event = "set-config" /\ (pc # "dispatch" \/ k > 1)) =>
    /\ config = cur.payload
    /\ KeysOf(config) = KeysOf(cur.payload)

C3_Witness ==
  /\ last.op = "stateUpdater"
  /\ cur.event = "set-config"
  /\ last.arg = {<<"a", 1>>, <<"b", 2>>}
  /\ cur.payload = {<<"a", 1>>}
  /\ config = {<<"a", 1>>}

\* C4: whenever user code can read the mirror (at top level or in a callback)
\* it equals the payload of the latest inbound 'set-config', or the seed when
\* none has arrived; setConfig does not change it.
C4_MirrorIsLastPushed ==
  UserRuns => config = pushed

C4_Witness ==
  /\ last.op = "setConfig"
  /\ last.arg # config
  /\ last.arg # EmptyConfig
  /\ config = pushed

\* C5: for each inbound 'set-config' the config watchers registered before it
\* are each called once, with the event's payload, in the order of
\* registration, and config watchers are called at no other time.
C5_WatchersOncePerSetConfig ==
  /\ ~InPass => log = << >>
  /\ InPass =>
       /\ cur.event # "set-config" => WatcherCalls = << >>
       /\ \A i \in 1..Len(WatcherCalls) :
            WatcherCalls[i].id = i /\ WatcherCalls[i].arg = cur.payload
       /\ Len(WatcherCalls) <= wlen
       /\ (cur.event = "set-config" /\ pc = "dispatch" /\ k > 1) =>
            Len(WatcherCalls) = wlen
  /\ (pc = "watchers" /\ wk = 1) => wlen = Len(configWatchers)

C5_Witness ==
  /\ PassDone
  /\ cur.event = "set-config"
  /\ cur.payload # EmptyConfig
  /\ Len(WatcherCalls) = 2

\* C6: the callback given to on(eventName, fieldKey, cb) runs, once and without
\* arguments, for a dispatched event exactly when the event's name is eventName,
\* its field is not null and the field's key is fieldKey.
C6_OnCallbackIffMatch ==
  /\ \A i \in 1..Len(log) : log[i].who = "callback" => log[i].arg = << >>
  /\ PassDone =>
       \A j \in 1..Len(handlers) :
         (handlers[j].kind = "on" /\ handlers[j].id <= len) =>
           CallbackRuns(handlers[j].id) =
             IF /\ cur.event = handlers[j].event
                /\ ~cur.field.isNull
                /\ cur.field.key = handlers[j].key
             THEN 1 ELSE 0

C6_Witness ==
  /\ PassDone
  /\ len = 3
  /\ CallbackRuns(2) = 1
  /\ CallbackRuns(3) = 0
  /\ handlers[3].kind = "on"
  /\ ~cur.field.isNull

\* C7: save() emits nothing when editMode is false and exactly one 'save'
\* message without payload when it is true; a 'save' message without payload
\* is only ever emitted by a session whose editMode is true.
C7_SaveOnlyInEditMode ==
  /\ last.op = "save" =>
       IF editMode
       THEN /\ Len(emitted) = 1
            /\ emitted[1].name = "save"
            /\ Len(emitted[1].args) = 0
       ELSE emitted = << >>
  /\ \A i \in 1..Len(emitted) :
       (emitted[i].name = "save" /\ Len(emitted[i].args) = 0) => editMode

C7_Witness ==
  /\ last.op = "save"
  /\ ~editMode
  /\ emitted = << >>
  /\ pc = "inCallback"

\* C8: setConfig(partial) emits exactly one message, named 'update-config',
\* whose payload is the given partial object.
C8_SetConfigEmitsUpdateConfig ==
  last.op = "setConfig" =>
    /\ Len(emitted) = 1
    /\ emitted[1].name = "update-config"
    /\ Len(emitted[1].args) = 1
    /\ emitted[1].args[1] = last.arg

C8_Witness ==
  /\ last.op = "setConfig"
  /\ Len(emitted) = 1
  /\ emitted[1].name = "update-config"
  /\ emitted[1].args = << {<<"a", 1>>, <<"b", 2>>} >>

IsNumberString(s) ==
  /\ Len(s) > 0
  /\ \A i \in 1..Len(s) : s[i] = "." \/ \E d \in 1..10 : DigitChar[d] = s[i]

\* C9: setHeight(h), h a non-negative number, emits exactly one 'set-height'
\* message whose payload is h as a string: read back as a number it is h.
C9_SetHeightRoundTrip ==
  last.op = "setHeight" =>
    /\ Len(emitted) = 1
    /\ emitted[1].name = "set-height"
    /\ Len(emitted[1].args) = 1
    /\ IsNumberString(emitted[1].args[1])
    /\ StringToNumber(emitted[1].args[1]) = last.arg

C9_Witness ==
  /\ last.op = "setHeight"
  /\ last.arg = 2500
  /\ Len(emitted) = 1
  /\ emitted[1].name = "set-height"
  /\ emitted[1].args = << <<"2", "5", "0">> >>

\* C10: enableAutoResize() called where there is no document body fails at
\* once with an error; the call creates no resize observer, starts no
\* observation and emits no 'set-height' message.
C10_NoBodyFailsFirst ==
  [][(last'.op = "enableAutoResize" /\ last'.arg.doc # "withBody") =>
       /\ last'.threw # "none"
       /\ observers' = observers
       /\ emitted' = << >>]_vars

C10_Witness ==
  /\ last.op = "enableAutoResize"
  /\ last.arg.doc = "noBody"
  /\ last.threw = "Error"
  /\ observers = << >>
  /\ emitted = << >>

IsSetHeight(m) == m.name = "set-height" /\ Len(m.args) = 1

\* C11: a successful enableAutoResize() emits one 'set-height' message at once
\* and starts one observer; each notification delivered to an observer emits
\* one 'set-height' message, and is delivered only to an observer whose cleanup
\* function has not been called; a size change by itself emits nothing, and a
\* torn down observer stays torn down.
C11_AutoResizeEmitsUntilTeardown ==
  [][/\ (last'.op = "enableAutoResize" /\ last'.threw = "none") =>
          /\ Len(emitted') = 1 /\ IsSetHeight(emitted'[1])
          /\ Len(observers') = Len(observers) + 1
          /\ observers'[Len(observers')].active
     /\ last'.op = "resizeCallback" =>
          /\ Len(emitted') = 1 /\ IsSetHeight(emitted'[1])
          /\ ~observers[last'.arg.observer].tornDown
          /\ observers[last'.arg.observer].active
     /\ last'.op \in {"bodyResized", "teardown"} => emitted' = << >>
     /\ \A i \in DOMAIN observers :
          observers[i].tornDown =>
            /\ observers'[i].tornDown
            /\ ~observers'[i].active
            /\ ~observers'[i].pending]_vars

C11_Witness ==
  /\ last.op = "bodyResized"
  /\ Len(observers) = 1
  /\ observers[1].tornDown
  /\ ~observers[1].pending
  /\ emitted = << >>

\* C12: every height auto-resize reports, the immediate one and each one sent on
\* a notification, is twice the top offset of the body's rectangle plus the
\* rectangle's height, the rectangle being read at the moment of the report.
C12_ReportedHeight ==
  ((last.op = "enableAutoResize" /\ last.threw = "none") \/ last.op = "resizeCallback") =>
    /\ Len(emitted) = 1
    /\ IsSetHeight(emitted[1])
    /\ StringToNumber(emitted[1].args[1])
         = last.arg.rect.y + last.arg.rect.y + last.arg.rect.height

C12_Witness ==
  /\ last.op = "resizeCallback"
  /\ last.arg.rect.y = 85
  /\ Len(emitted) = 1
  /\ emitted[1].args = << <<"2", "1", "7">> >>

\* C13: setSchema(schema) emits exactly one 'set-schema' message whose payload
\* is the given sequence of descriptors: same length, same descriptors in the
\* same order, nested sub-schemas included.
C13_SetSchemaKeepsSchema ==
  last.op = "setSchema" =>
    /\ Len(emitted) = 1
    /\ emitted[1].name = "set-schema"
    /\ Len(emitted[1].args) = 1
    /\ Len(emitted[1].args[1]) = Len(last.arg)
    /\ \A i \in 1..Len(last.arg) :
         /\ emitted[1].args[1][i].type = last.arg[i].type
         /\ emitted[1].args[1][i].key = last.arg[i].key
         /\ emitted[1].args[1][i].label = last.arg[i].label
         /\ emitted[1].args[1][i].schema = last.arg[i].schema

C13_Witness ==
  /\ last.op = "setSchema"
  /\ Len(last.arg) = 2
  /\ Len(emitted) = 1
  /\ emitted[1].args[1][1].type = "button"
  /\ Len(emitted[1].args[1][2].schema) = 1

\* the handlers in the range of the pass under way that match its event
MatchingInPass ==
  {j \in 1..Len(handlers) :
     /\ handlers[j].id <= len
     /\ handlers[j].kind = "on"
     /\ cur.event = handlers[j].event
     /\ ~cur.field.isNull
     /\ cur.field.key = handlers[j].key}

\* C14: an inbound event whose name is not 'set-config' leaves the mirror as it
\* was and calls no config watcher, whatever its field and payload; callbacks
\* given to `on` that match it may run; when none matches, the pass calls no
\* callback, emits nothing and raises no error.
C14_OtherEventsLeaveMirror ==
  (InPass /\ cur.event # "set-config") =>
    /\ config = pushed
    /\ WatcherCalls = << >>
    /\ pc \notin {"watchers", "inWatcher"}
    /\ MatchingInPass = {} =>
         /\ \A i \in 1..Len(log) : log[i].who = "handler"
         /\ emitted = << >>
         /\ last.threw = "none"

C14_Witness ==
  /\ PassDone
  /\ cur.event = "blur"
  /\ ~cur.field.isNull
  /\ cur.payload = {<<"a", 1>>}
  /\ config = {<<"a", 1>>, <<"b", 2>>}
  /\ len = 3
  /\ Len(configWatchers) = 2
  /\ Len(HandlerCalls) = 3

\* C15: once the session is connected, editMode and template keep the values
\* they were seeded with: no step changes either of them.
C15_EditModeAndTemplateFixed ==
  [][state = "Connected" => (editMode' = editMode /\ template' = template)]_vars

C15_Witness ==
  /\ state = "Connected"
  /\ editMode
  /\ template = "tpl"
  /\ last.op = "save"
  /\ pc = "inWatcher"

\* C16: the session goes from Connecting to Connected only when the handshake
\* resolves (createSDK), and never back; as long as the handshake has not
\* resolved there is no session: no step has been taken, nothing is registered
\* and nothing has been emitted.
C16_ConnectedOnceAndForAll ==
  /\ [](state = "Connecting" =>
          /\ last.op = "init"
          /\ emitted = << >>
          /\ handlers = << >>
          /\ configWatchers = << >>
          /\ pc = "idle")
  /\ [][/\ state = "Connected" => state' = "Connected"
        /\ state' # state => (state' = "Connected" /\ last'.op = "createSDK")]_vars

C16_Witness ==
  /\ state = "Connected"
  /\ last.op = "createSDK"
  /\ handlers = <<UpdaterHandler(1)>>
  /\ emitted = << >>

\* C17: at the handshake the mirror is the model's config when the model has
\* one and an empty mapping when it has none, and editMode is the boolean value
\* of the model's editMode flag (false when the flag is missing).
C17_SeededFromModel ==
  last.op = "createSDK" =>
    /\ config = IF last.arg.config.defined THEN last.arg.config.value ELSE {}
    /\ editMode = (last.arg.editMode = "true")
    /\ template = last.arg.code

C17_Witness ==
  /\ last.op = "createSDK"
  /\ ~last.arg.config.defined
  /\ last.arg.editMode = "undefined"
  /\ config = {}
  /\ ~editMode

\* C19: a config watcher registered while a 'set-config' event is being
\* dispatched is not called for that event: the watchers called are those that
\* were registered when the state-updater began its loop (identities 1..wlen),
\* each at most once; a watcher registered later has a greater identity and
\* waits.  The next 'set-config' takes it in, its loop beginning with every
\* watcher registered so far in its range.
C19_WatcherRegisteredDuringPassWaits ==
  (InPass /\ cur.event = "set-config") =>
    /\ \A i \in 1..Len(log) : log[i].who = "watcher" => log[i].id <= wlen
    /\ \A w \in 1..Len(configWatchers) :
         Cardinality({i \in 1..Len(log) :
                        log[i].who = "watcher" /\ log[i].id = configWatchers[w].id})
           <= (IF configWatchers[w].id <= wlen THEN 1 ELSE 0)
    /\ (pc = "watchers" /\ wk = 1) => wlen = Len(configWatchers)
    /\ (pc = "dispatch" /\ k = 1) => WatcherCalls = << >>

C19_Witness ==
  /\ pc = "watchers"
  /\ wk > wlen
  /\ wlen = 1
  /\ Len(configWatchers) = 2
  /\ Len(WatcherCalls) = 1

IsPrefix(s, t) == Len(s) <= Len(t) /\ \A i \in 1..Len(s) : s[i] = t[i]

\* C20: the handler list of the bus and the config watcher list only grow at
\* the end: every step leaves the list it found as a prefix of the list it
\* leaves, so nothing is removed or reordered.
C20_ListsAppendOnly ==
  [][/\ IsPrefix(handlers, handlers')
     /\ IsPrefix(configWatchers, configWatchers')]_vars

C20_Witness ==
  /\ Len(handlers) = 3
  /\ Len(configWatchers) = 2
  /\ PassDone
  /\ Len(HandlerCalls) = 3
  /\ Len(WatcherCalls) = 2

\* a callback has thrown in the pass under way
ThrowLogged == \E i \in 1..Len(log) : log[i].who = "throw"

\* C18: when a callback called during trigger(e) throws, the bus does not
\* swallow the failure: the pass does not go on and does not come to its normal
\* end; the error leaves trigger and the relay method, whose caller gets it.
C18_FailurePropagates ==
  /\ [](ThrowLogged => pc = "failed")
  /\ [][/\ pc = "failed" =>
             (pc' = "idle" /\ last'.op = "event" /\ last'.threw = "UserError")
        /\ last'.op = "triggerReturns" => ~ThrowLogged
        /\ last.op = "callbackThrows" => last'.op = "event"]_vars

C18_Witness ==
  /\ pc = "idle"
  /\ last.op = "event"
  /\ last.threw = "UserError"
  /\ last.arg.event = "click"
  /\ Len(handlers) = 3

\* the calls that the pass under way has made to callbacks of session s
Invoked(s) == IF s = focus THEN log ELSE << >>

\* C21: two sessions from two createSDK calls do not interfere.  While the
\* pass of an event that the host handed to the relay method of one session is
\* under way, no handler and no config watcher of the other session is called,
\* and no step of the pass changes the other session's mirror (nor its lists).
C21_SessionsIndependent ==
  /\ [](InPass => \A s \in Sessions : s # relayed => Invoked(s) = << >>)
  /\ [][(InPass \/ InPass') =>
          \A s \in Sessions :
            s # relayed' =>
              /\ Session(s)'.config = Session(s).config
              /\ Session(s)'.handlers = Session(s).handlers
              /\ Session(s)'.configWatchers = Session(s).configWatchers]_vars

C21_Witness ==
  /\ PassDone
  /\ relayed = 2
  /\ cur.event = "set-config"
  /\ config = cur.payload
  /\ Len(WatcherCalls) = 1
  /\ CallbackRuns(2) = 1
  /\ peer.state = "Connected"
  /\ peer.config # config
  /\ Len(peer.configWatchers) = 2
  /\ Len(peer.handlers) = 2
  /\ Matches(peer.handlers[2], cur)

\* how many config watchers the pass under way had called before its j-th call
WatcherCallsBefore(j) ==
  Cardinality({i \in 1..(j - 1) : log[i].who = "watcher"})

\* C22: the state-updater is always the first handler of a session's bus, so
\* in the pass of a 'set-config' event with payload P the mirror is replaced
\* and every config watcher of the pass has run before any handler registered
\* through `on` is called; while a config watcher or an `on` callback of that
\* pass runs, the mirror it reads is P.
C22_StateUpdaterFirst ==
  /\ state = "Connected" =>
       /\ Len(handlers) >= 1
       /\ handlers[1].kind = "updater"
       /\ \A j \in 2..Len(handlers) : handlers[j].kind = "on"
  /\ (InPass /\ cur.event = "set-config") =>
       /\ pc \in {"inWatcher", "inCallback"} => config = cur.payload
       /\ \A j \in 1..Len(log) :
            (log[j].who \in {"handler", "callback"} /\ log[j].id # handlers[1].id) =>
              /\ WatcherCallsBefore(j) = wlen
              /\ config = cur.payload

C22_Witness ==
  /\ pc = "inCallback"
  /\ cur.event = "set-config"
  /\ Len(WatcherCalls) = 2
  /\ config = cur.payload
  /\ config # EmptyConfig
  /\ handlers[k].kind = "on"

\* a config watcher has thrown in the pass under way: the call before the
\* throw is the call of a config watcher
WatcherThrew ==
  \E i \in 2..Len(log) : log[i].who = "throw" /\ log[i - 1].who = "watcher"

\* C23: when a config watcher throws during the pass of a 'set-config' event
\* with payload P, the mirror is not rolled back (it is P then, and still P
\* once the relay method has failed), and nothing is called after the failing
\* watcher: no later config watcher, and no handler behind the state-updater.
C23_WatcherFailureKeepsMirror ==
  /\ [](WatcherThrew =>
          /\ cur.event = "set-config"
          /\ config = cur.payload
          /\ log[Len(log)].who = "throw"
          /\ Len(WatcherCalls) = wk
          /\ Len(HandlerCalls) = 1
          /\ \A i \in 1..Len(log) : log[i].who # "callback")
  /\ [][WatcherThrew =>
          /\ last'.op = "event"
          /\ last'.threw = "UserError"
          /\ pc' = "idle"
          /\ config' = cur.payload
          /\ config' = pushed']_vars

C23_Witness ==
  /\ pc = "idle"
  /\ last.op = "event"
  /\ last.threw = "UserError"
  /\ last.arg.event = "set-config"
  /\ config = last.arg.payload
  /\ config = {<<"a", 1>>}
  /\ Len(configWatchers) = 2
  /\ Len(handlers) = 3
  /\ Matches(handlers[2], last.arg)

====
